---- MODULE Spec2Model ----
(***************************************************************************)
(* Model of core/src/retransmit_stage.rs: the shred deduper, the           *)
(* first-shred tracker, the per-batch retransmit pipeline with its worker  *)
(* pool, the slot-stats LRU and the supervisor loop.                       *)
(***************************************************************************)
EXTENDS Integers, Sequences, FiniteSets, TLC

(***************************************************************************)
(* Program constants.                                                      *)
(***************************************************************************)
MAX_DUPLICATE_COUNT == 2

SLOT_STATS_CACHE_CAPACITY == 750

SUBMIT_CADENCE == 2

RECV_TIMEOUT == 1

FIRST_SHREDS_PRUNE_THRESHOLD == 100

MIN_LEN == 4

(***************************************************************************)
(* Bounds of the model.                                                    *)
(***************************************************************************)
\* distinct payloads per shred position offered to the deduper alone
MaxPayloads == 3

\* dedup calls made on the deduper alone
MaxCalls == 5

\* root slot of the first fork-state snapshot seen by the first-shred tracker
FirstRoot == 2

\* highest root slot the fork state reaches
MaxRoot == 5

\* highest shred slot offered to the first-shred tracker
MaxSlot == 108

\* workers calling the first-shred tracker
TrackerWorkers == 2

\* how far a shred's slot may run ahead of a slot whose notification is still due
MaxLag == 2

\* batches upserted into the slot-stats cache alone
MaxUpserts == 3

\* latest instant of the clock, in seconds after construction
MaxTime == 2

\* batches the producers send into the intake channel
MaxBatches == 2

\* valid addresses get_retransmit_addrs returns for one shred
MaxAddrs == 2
\* the timestamps and the counters of the operands of a lone add_assign
MaxStamp == 2
\* get_thread_count() and sockets.len() when the pool is built
MaxCpus == 10
MaxSockets == 10
MaxCount == 1

(***************************************************************************)
(* Small helpers.                                                          *)
(***************************************************************************)
Min(a, b) == IF a < b THEN a ELSE b

Max(a, b) == IF a < b THEN b ELSE a

Range(s) == {s[i] : i \in DOMAIN s}

VARIABLES
    shred_deduper,   \* ShredDeduper: [deduper, shred_id_filter], two exact sets
    calls,           \* history: the dedup calls since the last filter reset
    fresh_ids,       \* history: shred ids with no trace in either filter at the last reset
    ncalls,          \* history: the number of dedup calls made on the deduper alone
    first_shreds_received, \* Mutex<BTreeSet<Slot>>
    root_slot,       \* root_bank.slot() of the current fork-state snapshot
    rpc_subscriptions, \* TRUE iff an RPC subscription sink is configured (Some)
    tr_pc,           \* per tracker worker: 0 (idle), or the slot whose notification is due
    latest_slot,     \* history: the highest slot offered to the tracker
    above_root,      \* history: slots of admitted shreds that were above the root when processed
    novel_count,     \* history: per slot, the calls that returned true since the last prune
    notify_count,    \* history: per slot, the FirstShredReceived notifications sent
    stats,           \* RetransmitStats, slot_stats included
    now,             \* the clock (Instant::now, timestamp), in seconds
    sup_pc,          \* where the retransmitter thread is: "recv", ..., "exited"
    stage_metrics,   \* metrics sink: the "retransmit-stage" datapoints
    slot_metrics,    \* metrics sink: the "retransmit-stage-slot-stats" datapoints
    fed,             \* history: per slot, the shreds and nodes upserted so far
    n_upserts,       \* history: the number of upserts made on the cache alone
    producers,       \* live Sender handles of the intake channel
    queue,           \* the batches in the intake channel
    n_sent,          \* history: the number of batches sent into the channel
    shreds,          \* the drained batch being retransmitted
    working_bank,    \* the slots whose leader the snapshot of the working bank knows
    cluster_nodes,   \* the cluster nodes the cache returns for the batch
    pieces,          \* the pieces the parallel iterator is split into, with their fold maps
    outcome,         \* history: per position of the batch, what became of the shred
    batch0,          \* history: the stats and the deduper when the workers were started
    max_slots,       \* max_slots.retransmit
    sockets,         \* sockets.len(), the number of UDP sockets handed to retransmitter
    thread_count,    \* get_thread_count()
    num_threads,     \* the number of threads of the pool, 0 before it is built
    add_assign_call, \* a call of add_assign alone: its operands and its result
    last_upsert      \* history: per slot, the rank of its latest upsert into the cache

dedup_vars == <<shred_deduper, calls, fresh_ids, ncalls>>

tracker_vars == <<first_shreds_received, root_slot, rpc_subscriptions, tr_pc,
                  latest_slot, above_root, novel_count, notify_count>>

stats_vars == <<stats, now, sup_pc, stage_metrics, slot_metrics, fed, n_upserts>>

stage_vars == <<producers, queue, n_sent, shreds, working_bank, cluster_nodes, pieces,
                outcome, batch0, max_slots>>

pool_vars == <<sockets, thread_count, num_threads>>

vars == <<dedup_vars, tracker_vars, stats_vars, stage_vars, pool_vars, add_assign_call,
          last_upsert>>

(***************************************************************************)
(* Shreds.  A shred is known to this stage by slot(), id() and payload.    *)
(* The payload bytes carry the header, so two shreds with equal payloads   *)
(* have equal ids; `payload` numbers the distinct encodings of one id.     *)
(***************************************************************************)
ShredKinds == {"data", "code"}

ShredId(shred) == <<shred.slot, shred.index, shred.kind>>

ShredPayload(shred) == <<shred.slot, shred.index, shred.kind, shred.payload>>

\* the shreds of tests::test_already_received: slot 1, index 5, data and coding
DedupShreds == [slot : {1}, index : {5}, kind : ShredKinds, payload : 1..MaxPayloads]

(***************************************************************************)
(* Deduper<K, T>::dedup: test-and-insert on one filter, taken as an exact  *)
(* set.  Returns true iff the key was already present.                     *)
(***************************************************************************)
Deduper_dedup(filter, key) == [out |-> key \in filter, filter |-> filter \cup {key}]

ShredDeduper_new == [deduper |-> {}, shred_id_filter |-> {}]

(***************************************************************************)
(* One filter access of ShredDeduper::dedup.  Stage 0 is                   *)
(* self.deduper.dedup(&shred.payload); stage i+1 is the i-th element of    *)
(* (0..max_duplicate_count).all(|i| self.shred_id_filter.dedup(&(key,i))). *)
(* `||` and `all` short-circuit: done tells that dedup has returned `out`. *)
(***************************************************************************)
\* a variant of the filter accesses that leaves the payload filter out
dedup_stage_idOnly(self, shred, max_duplicate_count, stage) ==
    IF stage = 0
    THEN [self |-> self, done |-> max_duplicate_count = 0, out |-> TRUE, stage |-> 1]
    ELSE LET r == Deduper_dedup(self.shred_id_filter, <<ShredId(shred), stage - 1>>)
             more == r.out /\ stage < max_duplicate_count
         IN  [self  |-> [self EXCEPT !.shred_id_filter = r.filter],
              done  |-> ~more,
              out   |-> r.out,
              stage |-> stage + 1]

\* a variant of the filter accesses that looks the payload up without
\* marking it
dedup_stage_probeOnly(self, shred, max_duplicate_count, stage) ==
    IF stage = 0
    THEN LET seen == ShredPayload(shred) \in self.deduper
             more == ~seen /\ max_duplicate_count > 0
         IN  [self |-> self, done |-> ~more, out |-> TRUE, stage |-> 1]
    ELSE LET r == Deduper_dedup(self.shred_id_filter, <<ShredId(shred), stage - 1>>)
             more == r.out /\ stage < max_duplicate_count
         IN  [self  |-> [self EXCEPT !.shred_id_filter = r.filter],
              done  |-> ~more,
              out   |-> r.out,
              stage |-> stage + 1]

dedup_stage(self, shred, max_duplicate_count, stage) ==
    IF stage = 0
    THEN LET r == Deduper_dedup(self.deduper, ShredPayload(shred))
             more == ~r.out /\ max_duplicate_count > 0
         IN  [self  |-> [self EXCEPT !.deduper = r.filter],
              done  |-> ~more,
              out   |-> TRUE,
              stage |-> 1]
    ELSE LET r == Deduper_dedup(self.shred_id_filter, <<ShredId(shred), stage - 1>>)
             more == r.out /\ stage < max_duplicate_count
         IN  [self  |-> [self EXCEPT !.shred_id_filter = r.filter],
              done  |-> ~more,
              out   |-> r.out,
              stage |-> stage + 1]

RECURSIVE dedup_from(_, _, _, _)
dedup_from(self, shred, max_duplicate_count, stage) ==
    LET s == dedup_stage(self, shred, max_duplicate_count, stage)
    IN  IF s.done
        THEN [out |-> s.out, self |-> s.self]
        ELSE dedup_from(s.self, shred, max_duplicate_count, s.stage)

\* a variant of dedup that probes the id filter for 0..=max_duplicate_count
ShredDeduper_dedup_inclusive(self, shred, max_duplicate_count) ==
    dedup_from(self, shred, max_duplicate_count + 1, 0)

\* a variant of dedup that leaves the payload filter out
ShredDeduper_dedup_idOnly(self, shred, max_duplicate_count) ==
    dedup_from(self, shred, max_duplicate_count, 1)

\* a variant of dedup that probes the id filter for 0..max_duplicate_count-1
ShredDeduper_dedup_exclusive(self, shred, max_duplicate_count) ==
    dedup_from(self, shred, max_duplicate_count - 1, 0)

\* ShredDeduper::dedup: true iff the shred is to be dropped
ShredDeduper_dedup(self, shred, max_duplicate_count) ==
    dedup_from(self, shred, max_duplicate_count, 0)

(***************************************************************************)
(* ShredDeduper::maybe_reset: each filter decides on its own (saturation,  *)
(* age) whether it is rebuilt empty.                                       *)
(***************************************************************************)
Deduper_maybe_reset(filter, reset) == IF reset THEN {} ELSE filter

ShredDeduper_maybe_reset(self, reset_deduper, reset_id_filter) ==
    [deduper         |-> Deduper_maybe_reset(self.deduper, reset_deduper),
     shred_id_filter |-> Deduper_maybe_reset(self.shred_id_filter, reset_id_filter)]

\* the ids that left no trace in either filter
UnseenIds(self, among) ==
    {id \in {ShredId(s) : s \in among} :
        /\ \A s \in among : ShredId(s) = id => ShredPayload(s) \notin self.deduper
        /\ \A i \in 0..(MAX_DUPLICATE_COUNT - 1) : <<id, i>> \notin self.shred_id_filter}

(***************************************************************************)
(* check_if_first_shred_received, the whole critical section: the result,  *)
(* the set afterwards and whether the set was pruned.                      *)
(***************************************************************************)
\* a variant that returns true outside the `if insert`
check_if_first_shred_received_alwaysTrue(shred_slot, set, root) ==
    IF shred_slot <= root
    THEN [out |-> FALSE, set |-> set, pruned |-> FALSE]
    ELSE [out |-> TRUE, set |-> set \cup {shred_slot}, pruned |-> FALSE]

\* a variant that never prunes the set
check_if_first_shred_received_noPrune(shred_slot, set, root) ==
    IF shred_slot <= root
    THEN [out |-> FALSE, set |-> set, pruned |-> FALSE]
    ELSE IF shred_slot \notin set
         THEN [out |-> TRUE, set |-> set \cup {shred_slot}, pruned |-> FALSE]
         ELSE [out |-> FALSE, set |-> set, pruned |-> FALSE]

check_if_first_shred_received(shred_slot, set, root) ==
    IF shred_slot <= root
    THEN [out |-> FALSE, set |-> set, pruned |-> FALSE]
    ELSE IF shred_slot \notin set
         THEN LET inserted == set \cup {shred_slot}
                  prune == Cardinality(inserted) > FIRST_SHREDS_PRUNE_THRESHOLD
              IN  [out    |-> TRUE,
                   set    |-> IF prune THEN {s \in inserted : s >= root + 1} ELSE inserted,
                   pruned |-> prune]
         ELSE [out |-> FALSE, set |-> set, pruned |-> FALSE]

(***************************************************************************)
(* RetransmitSlotStats.  The arrays indexed by root distance 0..2 are      *)
(* sequences indexed 1..3.                                                 *)
(***************************************************************************)
RetransmitSlotStats_default ==
    [asof |-> 0, outset |-> 0,
     num_shreds_received |-> <<0, 0, 0>>, num_shreds_sent |-> <<0, 0, 0>>]

\* RetransmitSlotStats::record
RetransmitSlotStats_record(self, t, root_distance, num_nodes) ==
    [asof   |-> Max(self.asof, t),
     outset |-> IF self.outset = 0 THEN t ELSE Min(self.outset, t),
     num_shreds_received |->
         [self.num_shreds_received EXCEPT ![root_distance + 1] = @ + 1],
     num_shreds_sent |->
         [self.num_shreds_sent EXCEPT ![root_distance + 1] = @ + num_nodes]]

\* impl AddAssign for RetransmitSlotStats
RetransmitSlotStats_add_assign(self, other) ==
    [asof   |-> Max(self.asof, other.asof),
     outset |-> IF self.outset = 0 THEN other.outset ELSE Min(self.outset, other.outset),
     num_shreds_received |->
         [k \in 1..3 |-> self.num_shreds_received[k] + other.num_shreds_received[k]],
     num_shreds_sent |->
         [k \in 1..3 |-> self.num_shreds_sent[k] + other.num_shreds_sent[k]]]

Sum3(a) == a[1] + a[2] + a[3]

\* RetransmitSlotStats::submit: the datapoint handed to the metrics sink
RetransmitSlotStats_submit(self, slot) ==
    [slot             |-> slot,
     outset_timestamp |-> self.outset,
     elapsed_millis   |-> IF self.asof >= self.outset THEN self.asof - self.outset ELSE 0,
     num_shreds       |-> Sum3(self.num_shreds_received),
     num_nodes        |-> Sum3(self.num_shreds_sent),
     num_shreds_received |-> self.num_shreds_received,
     num_shreds_sent  |-> self.num_shreds_sent]

(***************************************************************************)
(* LruCache<Slot, RetransmitSlotStats>::unbounded(): `order` lists the     *)
(* keys from the least to the most recently used, `map` holds the values.  *)
(***************************************************************************)
LruCache_unbounded == [order |-> << >>, map |-> << >>]

LruCache_len(cache) == Len(cache.order)

LruCache_contains(cache, key) == key \in DOMAIN cache.map

\* a variant of get_mut that leaves the recency order alone, as peek_mut does
LruCache_touch_peek(cache, key) == cache

\* get_mut on a present key makes it the most recently used
LruCache_touch(cache, key) ==
    [cache EXCEPT !.order = Append(SelectSeq(cache.order, LAMBDA k : k # key), key)]

\* put of an absent key
LruCache_put(cache, key, value) ==
    [order |-> Append(cache.order, key), map |-> cache.map @@ (key :> value)]

\* pop_lru of a cache that is not empty: the key, its value and the cache left
LruCache_pop_lru(cache) ==
    LET key == Head(cache.order)
    IN  [key   |-> key,
         value |-> cache.map[key],
         cache |-> [order |-> Tail(cache.order),
                    map   |-> [k \in DOMAIN cache.map \ {key} |-> cache.map[k]]]]

(***************************************************************************)
(* RetransmitStats.  The measured durations (total_time, epoch_fetch,      *)
(* epoch_cache_update, retransmit_total, compute_turbine_peers_total) are  *)
(* left out: no decision of the stage reads them.                          *)
(***************************************************************************)
RetransmitStats_new(t) ==
    [since                     |-> t,
     num_nodes                 |-> 0,
     num_addrs_failed          |-> 0,
     num_shreds                |-> 0,
     num_shreds_skipped        |-> 0,
     total_batches             |-> 0,
     slot_stats                |-> LruCache_unbounded,
     unknown_shred_slot_leader |-> 0]

\* lines 539-546: the body of the for loop, for one (slot, slot_stats) of the feed
upsert_entry(cache, slot, slot_stats) ==
    IF LruCache_contains(cache, slot)
    THEN [LruCache_touch(cache, slot) EXCEPT !.map[slot] =
             RetransmitSlotStats_add_assign(@, slot_stats)]
    ELSE LruCache_put(cache, slot, slot_stats)

\* lines 538-547: the for loop over the entries lo..hi of the feed, a map
\* iterated in the order feed.order (the range is halved to keep the
\* evaluation shallow; the entries lo..mid are upserted before mid+1..hi)
RECURSIVE upsert_feed(_, _, _, _)
upsert_feed(cache, feed, lo, hi) ==
    IF lo > hi THEN cache
    ELSE IF lo = hi THEN upsert_entry(cache, feed.order[lo], feed.map[feed.order[lo]])
    ELSE LET mid == (lo + hi) \div 2
             first == upsert_feed(cache, feed, lo, mid)
         IN  IF LruCache_len(first) >= 0
             THEN upsert_feed(first, feed, mid + 1, hi)
             ELSE first

\* a variant of the loop of lines 548-556 with `if` in place of `while`:
\* one entry popped at most
evict_lru_once(cache, submitted) ==
    IF LruCache_len(cache) > SLOT_STATS_CACHE_CAPACITY
    THEN LET p == LruCache_pop_lru(cache)
         IN  [cache |-> p.cache,
              submitted |-> Append(submitted, RetransmitSlotStats_submit(p.value, p.key))]
    ELSE [cache |-> cache, submitted |-> submitted]

\* a variant of the loop of lines 548-556 that drops the popped entry
\* without stats.submit(slot)
RECURSIVE evict_lru_silent(_, _)
evict_lru_silent(cache, submitted) ==
    IF LruCache_len(cache) > SLOT_STATS_CACHE_CAPACITY
    THEN evict_lru_silent(LruCache_pop_lru(cache).cache, submitted)
    ELSE [cache |-> cache, submitted |-> submitted]

\* lines 548-556: the while loop popping the least recently used entries
RECURSIVE evict_lru(_, _)
evict_lru(cache, submitted) ==
    IF LruCache_len(cache) > SLOT_STATS_CACHE_CAPACITY
    THEN LET p == LruCache_pop_lru(cache)
         IN  evict_lru(p.cache, Append(submitted, RetransmitSlotStats_submit(p.value, p.key)))
    ELSE [cache |-> cache, submitted |-> submitted]

\* RetransmitStats::upsert_slot_stats: the stats afterwards and the datapoints submitted
upsert_slot_stats(self, feed) ==
    LET e == evict_lru(upsert_feed(self.slot_stats, feed, 1, Len(feed.order)), << >>)
    IN  [self |-> [self EXCEPT !.slot_stats = e.cache], submitted |-> e.submitted]

\* the "retransmit-stage" datapoint of maybe_submit
StageDatapoint(self) ==
    [total_batches             |-> self.total_batches,
     num_nodes                 |-> self.num_nodes,
     num_addrs_failed          |-> self.num_addrs_failed,
     num_shreds                |-> self.num_shreds,
     num_shreds_skipped        |-> self.num_shreds_skipped,
     unknown_shred_slot_leader |-> self.unknown_shred_slot_leader]

\* a variant of maybe_submit that returns also when exactly SUBMIT_CADENCE
\* has elapsed
maybe_submit_strict(self, t) ==
    IF t - self.since <= SUBMIT_CADENCE
    THEN [self |-> self, submitted |-> << >>]
    ELSE [self |-> [RetransmitStats_new(t) EXCEPT !.slot_stats = self.slot_stats],
          submitted |-> <<StageDatapoint(self)>>]

\* a variant of maybe_submit without line 126: the new stats keep their
\* empty slot_stats
maybe_submit_dropSlotStats(self, t) ==
    IF t - self.since < SUBMIT_CADENCE
    THEN [self |-> self, submitted |-> << >>]
    ELSE [self |-> RetransmitStats_new(t), submitted |-> <<StageDatapoint(self)>>]

\* RetransmitStats::maybe_submit at instant t: the stats afterwards and the datapoints submitted
maybe_submit(self, t) ==
    IF t - self.since < SUBMIT_CADENCE
    THEN [self |-> self, submitted |-> << >>]
    ELSE [self |-> [RetransmitStats_new(t) EXCEPT !.slot_stats = self.slot_stats],
          submitted |-> <<StageDatapoint(self)>>]

(***************************************************************************)
(* The state after construction (retransmitter, lines 341-348), by group   *)
(* of variables.                                                           *)
(***************************************************************************)
DedupIdle ==
    /\ shred_deduper = ShredDeduper_new
    /\ calls = << >>
    /\ fresh_ids = {ShredId(s) : s \in DedupShreds}
    /\ ncalls = 0

TrackerIdle ==
    /\ first_shreds_received = {}
    /\ root_slot = FirstRoot
    /\ tr_pc = [w \in 1..TrackerWorkers |-> 0]
    /\ latest_slot = 0
    /\ above_root = {}
    /\ novel_count = [s \in 1..MaxSlot |-> 0]
    /\ notify_count = [s \in 1..MaxSlot |-> 0]

\* line 347: the stats as retransmitter creates them
StatsNew ==
    /\ now = 1
    /\ stats = RetransmitStats_new(1)
    /\ stage_metrics = << >>
    /\ slot_metrics = << >>
    /\ fed = << >>
    /\ n_upserts = 0
    /\ last_upsert = [count |-> 0, rank |-> << >>]

StatsIdle ==
    /\ StatsNew
    /\ sup_pc = "recv"

\* line 349 of retransmitter: get_thread_count().min(8).max(sockets.len())
num_threads_of(threads, socks) == Max(Min(threads, 8), socks)

\* no lone call of add_assign
NoAddAssign ==
    add_assign_call = [pc |-> "idle", self |-> RetransmitSlotStats_default,
                       other |-> RetransmitSlotStats_default,
                       result |-> RetransmitSlotStats_default]

\* one socket, two threads, the pool built
PoolIdle ==
    /\ sockets = 1
    /\ thread_count = 2
    /\ num_threads = num_threads_of(thread_count, sockets)
    /\ NoAddAssign

StageIdle ==
    /\ producers = 1
    /\ queue = << >>
    /\ n_sent = 0
    /\ shreds = << >>
    /\ working_bank = {}
    /\ cluster_nodes = << >>
    /\ pieces = << >>
    /\ outcome = << >>
    /\ batch0 = << >>
    /\ max_slots = 0

\* history: the shreds and nodes of `feed` added to what was upserted per slot before
FedAfter(feed) ==
    [s \in DOMAIN fed \cup DOMAIN feed.map |->
        LET before == IF s \in DOMAIN fed THEN fed[s] ELSE [shreds |-> 0, nodes |-> 0]
        IN  IF s \in DOMAIN feed.map
            THEN [shreds |-> before.shreds + Sum3(feed.map[s].num_shreds_received),
                  nodes  |-> before.nodes + Sum3(feed.map[s].num_shreds_sent)]
            ELSE before]

\* history: the slots of `feed` ranked, in the order they are upserted, after every
\* upsert before
UpsertedAfter(feed) ==
    [count |-> last_upsert.count + Len(feed.order),
     rank  |-> [s \in DOMAIN last_upsert.rank \cup DOMAIN feed.map |->
                  IF s \in DOMAIN feed.map
                  THEN last_upsert.count + (CHOOSE i \in DOMAIN feed.order : feed.order[i] = s)
                  ELSE last_upsert.rank[s]]]

(***************************************************************************)
(* Specification AddAssignSpec: one call of add_assign on any two values   *)
(* of RetransmitSlotStats with timestamps up to MaxStamp and counters up   *)
(* to MaxCount.                                                            *)
(***************************************************************************)
SlotStatsValues ==
    [asof : 0..MaxStamp, outset : 0..MaxStamp,
     num_shreds_received : [1..3 -> 0..MaxCount],
     num_shreds_sent : [1..3 -> 0..MaxCount]]

AddAssignInit ==
    /\ StageIdle
    /\ DedupIdle
    /\ TrackerIdle
    /\ StatsIdle
    /\ rpc_subscriptions = TRUE
    /\ sockets = 1
    /\ thread_count = 2
    /\ num_threads = num_threads_of(thread_count, sockets)
    /\ \E a \in SlotStatsValues, b \in SlotStatsValues :
           add_assign_call = [pc |-> "call", self |-> a, other |-> b,
                              result |-> RetransmitSlotStats_default]

\* self += other
AddAssign ==
    /\ add_assign_call.pc = "call"
    /\ add_assign_call' =
           [add_assign_call EXCEPT
               !.pc = "done",
               !.result = RetransmitSlotStats_add_assign(add_assign_call.self,
                                                         add_assign_call.other)]
    /\ UNCHANGED <<dedup_vars, tracker_vars, stats_vars, stage_vars, pool_vars, last_upsert>>

AddAssignNext == AddAssign

AddAssignSpec == AddAssignInit /\ [][AddAssignNext]_vars

(***************************************************************************)
(* Specification PoolSpec: retransmitter builds its thread pool, for any   *)
(* thread count from 1 to MaxCpus and any number of sockets up to          *)
(* MaxSockets.                                                             *)
(***************************************************************************)
PoolInit ==
    /\ StageIdle
    /\ DedupIdle
    /\ TrackerIdle
    /\ StatsNew
    /\ sup_pc = "start"
    /\ rpc_subscriptions = TRUE
    /\ thread_count \in 1..MaxCpus
    /\ sockets \in 0..MaxSockets
    /\ num_threads = 0
    /\ NoAddAssign

\* lines 349-357: ThreadPoolBuilder::new().num_threads(num_threads).build(),
\* and the thread solana-retransmitter spawned
BuildPool ==
    /\ sup_pc = "start"
    /\ num_threads' = num_threads_of(thread_count, sockets)
    /\ sup_pc' = "recv"
    /\ UNCHANGED <<stats, now, stage_metrics, slot_metrics, fed, n_upserts>>
    /\ UNCHANGED <<dedup_vars, tracker_vars, stage_vars, sockets, thread_count,
                   add_assign_call, last_upsert>>

PoolNext == BuildPool

PoolSpec == PoolInit /\ [][PoolNext]_vars

(***************************************************************************)
(* Specification RingSpec: the retransmitter at the grain of whole         *)
(* batches.  A batch is given by its reduced slot-stats map: one shred     *)
(* each for a block of consecutive slots, all at root distance 1 and sent  *)
(* to one node, the                                                        *)
(* map iterated in ascending or descending slot order.  The blocks are one *)
(* or two slots at either end of the capacity, and, while the cache is     *)
(* empty, as many slots as the capacity, or one more.                      *)
(***************************************************************************)
RingBlocks ==
    {<<1, 1>>, <<SLOT_STATS_CACHE_CAPACITY + 1, 1>>, <<SLOT_STATS_CACHE_CAPACITY + 1, 2>>}
    \cup IF LruCache_len(stats.slot_stats) = 0
         THEN {<<1, SLOT_STATS_CACHE_CAPACITY>>, <<1, SLOT_STATS_CACHE_CAPACITY + 1>>}
         ELSE {}

RingFeed(block, ascending) ==
    LET one == RetransmitSlotStats_record(RetransmitSlotStats_default, now, 1, 1)
    IN  [order |-> [i \in 1..block[2] |->
                       IF ascending THEN block[1] + i - 1 ELSE block[1] + block[2] - i],
         map   |-> [s \in block[1]..(block[1] + block[2] - 1) |-> one]]

RingInit ==
    /\ StageIdle
    /\ DedupIdle
    /\ TrackerIdle
    /\ rpc_subscriptions = TRUE
    /\ StatsIdle
    /\ PoolIdle

\* lines 206-207 and 317 of retransmit, for a batch whose shreds are all sent
RingUpsert(feed) ==
    /\ sup_pc = "recv"
    /\ n_upserts < MaxUpserts
    /\ n_upserts' = n_upserts + 1
    /\ LET counted == [stats EXCEPT !.num_shreds = @ + Len(feed.order), !.total_batches = @ + 1]
           r == upsert_slot_stats(counted, feed)
       IN  /\ stats' = r.self
           /\ slot_metrics' = slot_metrics \o r.submitted
    /\ fed' = FedAfter(feed)
    /\ last_upsert' = UpsertedAfter(feed)
    /\ UNCHANGED <<now, sup_pc, stage_metrics, dedup_vars, tracker_vars, stage_vars>>
    /\ UNCHANGED <<pool_vars, add_assign_call>>

\* line 320 of retransmit
RingMaybeSubmit ==
    /\ sup_pc = "recv"
    /\ LET r == maybe_submit(stats, now)
       IN  /\ stats' = r.self
           /\ stage_metrics' = stage_metrics \o r.submitted
    /\ UNCHANGED <<now, sup_pc, slot_metrics, fed, n_upserts, dedup_vars, tracker_vars, stage_vars>>
    /\ UNCHANGED <<pool_vars, add_assign_call, last_upsert>>

\* the clock passes the submit cadence while the thread waits in recv_timeout
RingTick ==
    /\ sup_pc = "recv"
    /\ now + SUBMIT_CADENCE <= 1 + MaxTime
    /\ now' = now + SUBMIT_CADENCE
    /\ UNCHANGED <<stats, sup_pc, stage_metrics, slot_metrics, fed, n_upserts,
                   dedup_vars, tracker_vars, stage_vars>>
    /\ UNCHANGED <<pool_vars, add_assign_call, last_upsert>>

\* line 376: the loop is left and the stats are dropped
RingExit ==
    /\ sup_pc = "recv"
    /\ sup_pc' = "exited"
    /\ UNCHANGED <<stats, now, stage_metrics, slot_metrics, fed, n_upserts,
                   dedup_vars, tracker_vars, stage_vars>>
    /\ UNCHANGED <<pool_vars, add_assign_call, last_upsert>>

RingNext ==
    \/ \E block \in RingBlocks : \E ascending \in BOOLEAN :
           RingUpsert(RingFeed(block, ascending))
    \/ RingMaybeSubmit
    \/ RingTick
    \/ RingExit

RingSpec == RingInit /\ [][RingNext]_vars

(***************************************************************************)
(* Specification DedupSpec: one ShredDeduper, any sequence of dedup and    *)
(* maybe_reset calls.                                                      *)
(***************************************************************************)
DedupInit ==
    /\ StageIdle
    /\ DedupIdle
    /\ TrackerIdle
    /\ StatsIdle
    /\ PoolIdle
    /\ rpc_subscriptions = TRUE

DedupCall(shred) ==
    /\ ncalls < MaxCalls
    /\ ncalls' = ncalls + 1
    /\ LET r == ShredDeduper_dedup(shred_deduper, shred, MAX_DUPLICATE_COUNT)
       IN  /\ shred_deduper' = r.self
           /\ calls' = Append(calls,
                  [shred |-> shred,
                   out   |-> r.out,
                   seen  |-> ShredPayload(shred) \in shred_deduper.deduper,
                   taken |-> Cardinality({i \in 0..(MAX_DUPLICATE_COUNT - 1) :
                                 <<ShredId(shred), i>> \in shred_deduper.shred_id_filter})])
    /\ UNCHANGED <<fresh_ids, tracker_vars, stats_vars, stage_vars>>
    /\ UNCHANGED <<pool_vars, add_assign_call, last_upsert>>

DedupMaybeReset(reset_deduper, reset_id_filter) ==
    /\ shred_deduper' = ShredDeduper_maybe_reset(shred_deduper, reset_deduper, reset_id_filter)
    /\ IF reset_deduper \/ reset_id_filter
       THEN /\ calls' = << >>
            /\ fresh_ids' = UnseenIds(shred_deduper', DedupShreds)
       ELSE UNCHANGED <<calls, fresh_ids>>
    /\ UNCHANGED <<ncalls, tracker_vars, stats_vars, stage_vars>>
    /\ UNCHANGED <<pool_vars, add_assign_call, last_upsert>>

DedupNext ==
    \/ \E shred \in DedupShreds : DedupCall(shred)
    \/ \E reset_deduper \in BOOLEAN, reset_id_filter \in BOOLEAN :
           DedupMaybeReset(reset_deduper, reset_id_filter)

DedupSpec == DedupInit /\ [][DedupNext]_vars

(***************************************************************************)
(* Specification TrackerSpec: the workers of the pool run lines 237-244 of *)
(* retransmit_shred for admitted shreds; the root slot advances between    *)
(* batches.  Shred slots are the stale slots up to FirstRoot, the slots 5  *)
(* and 7 in any order and any number of times, and above 7 the slot after  *)
(* the latest one, at most MaxLag ahead of a slot whose notification is    *)
(* still due; the root advances from FirstRoot to MaxRoot.                 *)
(***************************************************************************)
TrackerInit ==
    /\ StageIdle
    /\ DedupIdle
    /\ TrackerIdle
    /\ StatsIdle
    /\ PoolIdle
    /\ rpc_subscriptions \in BOOLEAN

TrackerInputs ==
    {s \in (1..FirstRoot) \cup {5, 7} \cup {latest_slot + 1} :
        /\ s <= MaxSlot
        /\ s <= FirstRoot \/ s \in {5, 7} \/ latest_slot >= 7
        /\ \A w \in 1..TrackerWorkers : tr_pc[w] = 0 \/ s <= tr_pc[w] + MaxLag}

\* lines 237-238: the call under the mutex, made only when a sink is configured
TrackerObserve(w, shred_slot) ==
    /\ tr_pc[w] = 0
    /\ latest_slot' = Max(latest_slot, shred_slot)
    /\ above_root' = IF shred_slot > root_slot THEN above_root \cup {shred_slot} ELSE above_root
    /\ IF rpc_subscriptions
       THEN LET r == check_if_first_shred_received(shred_slot, first_shreds_received, root_slot)
            IN  /\ first_shreds_received' = r.set
                /\ novel_count' =
                       IF ~r.out THEN novel_count
                       ELSE IF r.pruned THEN [s \in 1..MaxSlot |-> IF s = shred_slot THEN 1 ELSE 0]
                       ELSE [novel_count EXCEPT ![shred_slot] = @ + 1]
                /\ tr_pc' = [tr_pc EXCEPT ![w] = IF r.out THEN shred_slot ELSE 0]
       ELSE UNCHANGED <<first_shreds_received, novel_count, tr_pc>>
    /\ UNCHANGED <<root_slot, rpc_subscriptions, notify_count, dedup_vars, stats_vars, stage_vars>>
    /\ UNCHANGED <<pool_vars, add_assign_call, last_upsert>>

\* lines 239-242: rpc_subscriptions.notify_slot_update(FirstShredReceived)
TrackerNotify(w) ==
    /\ tr_pc[w] # 0
    /\ notify_count' = [notify_count EXCEPT ![tr_pc[w]] = @ + 1]
    /\ tr_pc' = [tr_pc EXCEPT ![w] = 0]
    /\ UNCHANGED <<first_shreds_received, root_slot, rpc_subscriptions, latest_slot,
                   above_root, novel_count, dedup_vars, stats_vars, stage_vars>>
    /\ UNCHANGED <<pool_vars, add_assign_call, last_upsert>>

\* lines 210-213: the next batch takes a new snapshot; the root never goes back
TrackerSnapshot(root) ==
    /\ \A w \in 1..TrackerWorkers : tr_pc[w] = 0
    /\ root >= root_slot
    /\ root_slot' = root
    /\ UNCHANGED <<first_shreds_received, rpc_subscriptions, tr_pc, latest_slot,
                   above_root, novel_count, notify_count, dedup_vars, stats_vars, stage_vars>>
    /\ UNCHANGED <<pool_vars, add_assign_call, last_upsert>>

TrackerNext ==
    \/ \E w \in 1..TrackerWorkers : \E shred_slot \in TrackerInputs : TrackerObserve(w, shred_slot)
    \/ \E w \in 1..TrackerWorkers : TrackerNotify(w)
    \/ \E root \in {root_slot, MaxRoot} : TrackerSnapshot(root)

TrackerSpec == TrackerInit /\ [][TrackerNext]_vars

(***************************************************************************)
(* Specification Spec: the retransmitter thread, the producers of the      *)
(* intake channel and the workers of the thread pool.                      *)
(*                                                                         *)
(* The producers send batches made of three shreds: ShredA and ShredC of   *)
(* slot 5 and ShredB of slot 7.  Two batches of four drained together make *)
(* a batch of eight, the shortest with_min_len(4) lets the pool split.     *)
(* The snapshot of the working bank knows the leader of slot 5 and may     *)
(* know the one of slot 7.                                                 *)
(***************************************************************************)
ShredA == [slot |-> 5, index |-> 0, kind |-> "data", payload |-> 1]

ShredB == [slot |-> 7, index |-> 0, kind |-> "data", payload |-> 1]

ShredC == [slot |-> 5, index |-> 1, kind |-> "data", payload |-> 1]

Batches == {<<ShredA, ShredA>>, <<ShredB>>, <<ShredA, ShredB, ShredC, ShredC>>}


\* leader_schedule_cache.slot_leader_at(shred_slot, Some(&working_bank)) is Some
slot_leader_at(shred_slot, bank) == shred_slot \in bank

\* cluster_nodes_cache.get: the cluster nodes of the epoch, given by what
\* get_retransmit_addrs and the filter of lines 265-268 make of each shred:
\* the root distance and the number of valid addresses; a leaf has none.
\* Near the root every shred has one address; far from it ShredA has
\* MaxAddrs of them, so that a send may fail for some and not for others
ClusterNodesNear ==
    (ShredId(ShredA) :> <<0, 1>>) @@ (ShredId(ShredB) :> <<1, 1>>)
        @@ (ShredId(ShredC) :> <<2, 0>>)

ClusterNodesFar ==
    (ShredId(ShredA) :> <<1, MaxAddrs>>) @@ (ShredId(ShredB) :> <<2, 0>>)
        @@ (ShredId(ShredC) :> <<0, 0>>)

\* what a batch may find in the bank forks and the caches: the leaders of
\* slots 5 and 7 known, or the leader of slot 7 unknown under other
\* cluster nodes
Snapshots ==
    {[leaders |-> {5, 7}, nodes |-> ClusterNodesNear],
     [leaders |-> {5},    nodes |-> ClusterNodesFar]}

get_retransmit_addrs(nodes, shred) == nodes[ShredId(shred)]

\* multi_target_send(socket, &shred.payload, &addrs): the number of
\* addresses that failed, 0 for Ok(())
SendFailures(num_addrs) == 0..num_addrs

\* shreds.extend(shreds_receiver.try_iter().flatten()) after the first batch
RECURSIVE Flatten(_)
Flatten(batches) ==
    IF batches = << >> THEN << >> ELSE Head(batches) \o Flatten(Tail(batches))

\* into_par_iter().with_min_len(4): the ranges lo..hi the batch may be split
\* into.  A piece is halved only if both halves keep MIN_LEN shreds, and
\* the splitter may stop halving at any piece.
RECURSIVE Splits(_, _)
Splits(lo, hi) ==
    {<< <<lo, hi>> >>}
    \cup IF (hi - lo + 1) \div 2 >= MIN_LEN
         THEN LET mid == lo + (hi - lo + 1) \div 2
              IN  {l \o r : l \in Splits(lo, mid - 1), r \in Splits(mid, hi)}
         ELSE {}

\* a piece before its first shred: the fold starts from HashMap::new
NewPiece(range) ==
    [next   |-> range[1],
     hi     |-> range[2],
     pc     |-> IF range[1] > range[2] THEN "done" ELSE "dedup",
     stage  |-> 0,
     acc    |-> << >>,
     merges |-> 0]

\* the piece moves on to its next shred
NextShred(piece) ==
    [piece EXCEPT !.next = @ + 1,
                  !.stage = 0,
                  !.pc = IF piece.next + 1 > piece.hi THEN "done" ELSE "dedup"]

\* a variant in which install does not wait for the workers
AllDone_noJoin == TRUE

\* thread_pool.install returns when every piece of the batch is folded
AllDone == \A p \in DOMAIN pieces : pieces[p].pc = "done"

\* history: a shred of the batch no worker has finished with
NoOutcome ==
    [res |-> "pending", root_distance |-> 0, num_addrs |-> 0, num_failed |-> 0,
     num_nodes |-> 0]

\* a variant of lines 251-295 that counts the unknown leader and goes on to
\* send instead of returning None
retransmit_shred_noReturn(self, leader_known, root_distance, num_addrs, num_failed) ==
    [stats |-> [self EXCEPT
                   !.unknown_shred_slot_leader = IF leader_known THEN @ ELSE @ + 1,
                   !.num_addrs_failed = @ + num_failed,
                   !.num_nodes = @ + (num_addrs - num_failed)],
     sent  |-> TRUE,
     some  |-> TRUE,
     root_distance |-> root_distance,
     num_nodes |-> num_addrs - num_failed]

\* a variant of lines 275-289 that yields one node for a send that returned
\* Ok(()), whatever the number of addresses
retransmit_shred_countCall(self, leader_known, root_distance, num_addrs, num_failed) ==
    LET num_nodes == IF num_failed = 0 THEN 1 ELSE num_addrs - num_failed
    IN  IF ~leader_known
        THEN [stats |-> [self EXCEPT !.unknown_shred_slot_leader = @ + 1],
              sent  |-> FALSE,
              some  |-> FALSE,
              root_distance |-> 0,
              num_nodes |-> 0]
        ELSE [stats |-> [self EXCEPT !.num_addrs_failed = @ + num_failed,
                                     !.num_nodes = @ + num_nodes],
              sent  |-> TRUE,
              some  |-> TRUE,
              root_distance |-> root_distance,
              num_nodes |-> num_nodes]

\* a variant of lines 275-289 that yields addrs.len() also when the send
\* returned an error
retransmit_shred_noSubtract(self, leader_known, root_distance, num_addrs, num_failed) ==
    IF ~leader_known
    THEN [stats |-> [self EXCEPT !.unknown_shred_slot_leader = @ + 1],
          sent  |-> FALSE,
          some  |-> FALSE,
          root_distance |-> 0,
          num_nodes |-> 0]
    ELSE [stats |-> [self EXCEPT !.num_addrs_failed = @ + num_failed,
                                 !.num_nodes = @ + num_addrs],
          sent  |-> TRUE,
          some  |-> TRUE,
          root_distance |-> root_distance,
          num_nodes |-> num_addrs]

\* lines 251-295 of the closure retransmit_shred, for an admitted shred: the
\* counters afterwards, whether multi_target_send was called, and the value
\* returned (some = FALSE for None)
retransmit_shred(self, leader_known, root_distance, num_addrs, num_failed) ==
    IF ~leader_known
    THEN [stats |-> [self EXCEPT !.unknown_shred_slot_leader = @ + 1],
          sent  |-> FALSE,
          some  |-> FALSE,
          root_distance |-> 0,
          num_nodes |-> 0]
    ELSE [stats |-> [self EXCEPT !.num_addrs_failed = @ + num_failed,
                                 !.num_nodes = @ + (num_addrs - num_failed)],
          sent  |-> TRUE,
          some  |-> TRUE,
          root_distance |-> root_distance,
          num_nodes |-> num_addrs - num_failed]

\* a variant of the fold closure that records into a fresh entry, in place
\* of acc.entry(slot).or_default()
fold_record_fresh(acc, slot, t, root_distance, num_nodes) ==
    LET recorded == RetransmitSlotStats_record(RetransmitSlotStats_default, t,
                                               root_distance, num_nodes)
    IN  [s \in DOMAIN acc \cup {slot} |-> IF s = slot THEN recorded ELSE acc[s]]

\* lines 308-312: the fold closure on one item of the piece
fold_record(acc, slot, t, root_distance, num_nodes) ==
    LET entry == IF slot \in DOMAIN acc THEN acc[slot] ELSE RetransmitSlotStats_default
        recorded == RetransmitSlotStats_record(entry, t, root_distance, num_nodes)
    IN  [s \in DOMAIN acc \cup {slot} |-> IF s = slot THEN recorded ELSE acc[s]]

\* a variant of merge that inserts the entries of `other`, replacing those of acc
RetransmitSlotStats_merge_insert(acc, other) ==
    LET swap == Cardinality(DOMAIN acc) < Cardinality(DOMAIN other)
        a == IF swap THEN other ELSE acc
        o == IF swap THEN acc ELSE other
    IN  [key \in DOMAIN a \cup DOMAIN o |-> IF key \in DOMAIN o THEN o[key] ELSE a[key]]

\* RetransmitSlotStats::merge
RetransmitSlotStats_merge(acc, other) ==
    LET swap == Cardinality(DOMAIN acc) < Cardinality(DOMAIN other)
        a == IF swap THEN other ELSE acc
        o == IF swap THEN acc ELSE other
    IN  [key \in DOMAIN a \cup DOMAIN o |->
            IF key \in DOMAIN o
            THEN RetransmitSlotStats_add_assign(
                     IF key \in DOMAIN a THEN a[key] ELSE RetransmitSlotStats_default,
                     o[key])
            ELSE a[key]]

\* line 303: the index of the socket of the worker with this thread index,
\* index % sockets.len(); -1 stands for the panic of a remainder by zero
socket_index(index, socks) == IF socks = 0 THEN -1 ELSE index % socks

\* a variant of the loop of lines 359-378 that leaves on any error
retransmitter_loop_anyErr(result) == IF result = "Ok" THEN "recv" ELSE "exited"

\* lines 359-378: where the thread goes after retransmit has returned
retransmitter_loop(result) == IF result = "Disconnected" THEN "exited" ELSE "recv"

\* the orders in which a map with these keys may be iterated
Orders(keys) ==
    {order \in [1..Cardinality(keys) -> keys] : \A k \in keys : \E i \in DOMAIN order : order[i] = k}

Init ==
    /\ StageIdle
    /\ DedupIdle
    /\ TrackerIdle
    /\ rpc_subscriptions \in BOOLEAN
    /\ StatsIdle
    /\ PoolIdle

\* a producer sends a batch
Send(batch) ==
    /\ producers > 0
    /\ n_sent < MaxBatches
    /\ n_sent' = n_sent + 1
    /\ queue' = Append(queue, batch)
    /\ UNCHANGED <<producers, shreds, working_bank, cluster_nodes, pieces, outcome, batch0,
                   max_slots, dedup_vars, tracker_vars, stats_vars>>
    /\ UNCHANGED <<pool_vars, add_assign_call, last_upsert>>

\* a producer drops its Sender
Drop ==
    /\ producers > 0
    /\ producers' = producers - 1
    /\ UNCHANGED <<queue, n_sent, shreds, working_bank, cluster_nodes, pieces, outcome,
                   batch0, max_slots, dedup_vars, tracker_vars, stats_vars>>
    /\ UNCHANGED <<pool_vars, add_assign_call, last_upsert>>

\* lines 203-222 and the split of line 297-300: a batch is received, the
\* rest of the channel drained, the banks snapshotted and the deduper
\* possibly reset
Recv(root, leaders, nodes, reset_deduper, reset_id_filter, split) ==
    /\ sup_pc = "recv"
    /\ queue # << >>
    /\ root >= root_slot
    /\ queue' = << >>
    /\ shreds' = Flatten(queue)
    /\ stats' = [stats EXCEPT !.num_shreds = @ + Len(Flatten(queue)),
                              !.total_batches = @ + 1]
    /\ root_slot' = root
    /\ working_bank' = leaders
    /\ cluster_nodes' = nodes
    /\ shred_deduper' = ShredDeduper_maybe_reset(shred_deduper, reset_deduper, reset_id_filter)
    /\ pieces' = [p \in DOMAIN split |-> NewPiece(split[p])]
    /\ outcome' = [i \in 1..Len(Flatten(queue)) |-> NoOutcome]
    /\ batch0' = [stats |-> stats, shred_deduper |-> shred_deduper']
    /\ sup_pc' = "work"
    /\ UNCHANGED <<producers, n_sent, calls, fresh_ids, ncalls, first_shreds_received,
                   rpc_subscriptions, tr_pc, latest_slot, above_root, novel_count,
                   notify_count, now, stage_metrics, slot_metrics, fed, n_upserts, max_slots>>
    /\ UNCHANGED <<pool_vars, add_assign_call, last_upsert>>

\* line 203 returns Err(Timeout) after RECV_TIMEOUT on an empty channel, and
\* line 375 goes round the loop
Timeout ==
    /\ sup_pc = "recv"
    /\ queue = << >>
    /\ producers > 0
    /\ now + RECV_TIMEOUT <= 1 + MaxTime
    /\ now' = now + RECV_TIMEOUT
    /\ sup_pc' = retransmitter_loop("Timeout")
    /\ UNCHANGED <<stats, stage_metrics, slot_metrics, fed, n_upserts,
                   dedup_vars, tracker_vars, stage_vars>>
    /\ UNCHANGED <<pool_vars, add_assign_call, last_upsert>>

\* line 203 returns Err(Disconnected): the channel is empty and has no
\* Sender; line 376 leaves the loop
Disconnected ==
    /\ sup_pc = "recv"
    /\ queue = << >>
    /\ producers = 0
    /\ sup_pc' = retransmitter_loop("Disconnected")
    /\ UNCHANGED <<stats, now, stage_metrics, slot_metrics, fed, n_upserts,
                   dedup_vars, tracker_vars, stage_vars>>
    /\ UNCHANGED <<pool_vars, add_assign_call, last_upsert>>

\* lines 302-303 and 228-231: for a new shred the worker of piece p picks its
\* socket, which panics when there is none; then one filter access of
\* shred_deduper.dedup, and the skip once dedup has returned true
WorkerDedup(p) ==
    /\ sup_pc = "work"
    /\ pieces[p].pc = "dedup"
    /\ IF pieces[p].stage = 0 /\ socket_index(p - 1, sockets) = -1
       THEN /\ sup_pc' = "panicked"
            /\ UNCHANGED <<shred_deduper, stats, pieces, outcome>>
       ELSE /\ LET piece == pieces[p]
                   s == dedup_stage(shred_deduper, shreds[piece.next], MAX_DUPLICATE_COUNT,
                                    piece.stage)
               IN  /\ shred_deduper' = s.self
                   /\ IF s.done /\ s.out
                      THEN /\ stats' = [stats EXCEPT !.num_shreds_skipped = @ + 1]
                           /\ pieces' = [pieces EXCEPT ![p] = NextShred(piece)]
                           /\ outcome' = [outcome EXCEPT ![piece.next].res = "skipped"]
                      ELSE /\ pieces' = [pieces EXCEPT ![p] =
                                  IF s.done THEN [piece EXCEPT !.pc = "rest"]
                                  ELSE [piece EXCEPT !.stage = s.stage]]
                           /\ UNCHANGED <<stats, outcome>>
            /\ UNCHANGED sup_pc
    /\ UNCHANGED <<calls, fresh_ids, ncalls, tracker_vars, now, stage_metrics,
                   slot_metrics, fed, n_upserts, producers, queue, n_sent, shreds,
                   working_bank, cluster_nodes, batch0, max_slots>>
    /\ UNCHANGED <<pool_vars, add_assign_call, last_upsert>>

\* lines 232-295 and 304-312: the rest of retransmit_shred for an admitted
\* shred and the fold of its result into the map of piece p
WorkerRest(p, num_failed) ==
    /\ sup_pc = "work"
    /\ pieces[p].pc = "rest"
    /\ num_failed \in SendFailures(get_retransmit_addrs(cluster_nodes, shreds[pieces[p].next])[2])
    /\ LET piece == pieces[p]
           shred_slot == shreds[piece.next].slot
           seen == check_if_first_shred_received(shred_slot, first_shreds_received, root_slot)
           addrs == get_retransmit_addrs(cluster_nodes, shreds[piece.next])
           r == retransmit_shred(stats, slot_leader_at(shred_slot, working_bank),
                                 addrs[1], addrs[2], num_failed)
       IN  /\ max_slots' = Max(max_slots, shred_slot)
           /\ latest_slot' = Max(latest_slot, shred_slot)
           /\ above_root' =
                  IF shred_slot > root_slot THEN above_root \cup {shred_slot} ELSE above_root
           /\ IF rpc_subscriptions
              THEN /\ first_shreds_received' = seen.set
                   /\ novel_count' =
                          IF ~seen.out THEN novel_count
                          ELSE IF seen.pruned
                               THEN [s \in 1..MaxSlot |-> IF s = shred_slot THEN 1 ELSE 0]
                          ELSE [novel_count EXCEPT ![shred_slot] = @ + 1]
                   /\ notify_count' =
                          IF seen.out THEN [notify_count EXCEPT ![shred_slot] = @ + 1]
                          ELSE notify_count
              ELSE UNCHANGED <<first_shreds_received, novel_count, notify_count>>
           /\ stats' = r.stats
           /\ pieces' = [pieces EXCEPT ![p] =
                  NextShred([piece EXCEPT !.acc =
                      IF r.some
                      THEN fold_record(@, shred_slot, now, r.root_distance, r.num_nodes)
                      ELSE @])]
           /\ outcome' = [outcome EXCEPT ![piece.next] =
                  [res |-> IF r.sent THEN "sent" ELSE "unknown",
                   root_distance |-> IF r.some THEN r.root_distance ELSE 3,
                   num_addrs     |-> IF r.sent THEN addrs[2] ELSE 0,
                   num_failed    |-> r.stats.num_addrs_failed - stats.num_addrs_failed,
                   num_nodes     |-> r.num_nodes]]
    /\ UNCHANGED <<dedup_vars, root_slot, rpc_subscriptions, tr_pc, now, sup_pc,
                   stage_metrics, slot_metrics, fed, n_upserts, producers, queue, n_sent,
                   shreds, working_bank, cluster_nodes, batch0>>
    /\ UNCHANGED <<pool_vars, add_assign_call, last_upsert>>

\* the sequence without its j-th element
Without(seq, j) == [k \in 1..(Len(seq) - 1) |-> IF k < j THEN seq[k] ELSE seq[k + 1]]

\* line 315: the maps of two finished pieces are merged, in either order
Reduce(i, j) ==
    /\ sup_pc = "work"
    /\ AllDone
    /\ i # j
    /\ pieces' = Without(
           [pieces EXCEPT ![i] =
               [@ EXCEPT !.acc = RetransmitSlotStats_merge(pieces[i].acc, pieces[j].acc),
                         !.merges = pieces[i].merges + pieces[j].merges + 1]],
           j)
    /\ UNCHANGED <<dedup_vars, tracker_vars, stats_vars, producers, queue, n_sent, shreds,
                   working_bank, cluster_nodes, outcome, batch0, max_slots>>
    /\ UNCHANGED <<pool_vars, add_assign_call, last_upsert>>

\* lines 317-321: the reduced map is upserted, iterated in `order`, the
\* stats are submitted if due, and retransmit returns Ok(())
Finish(order) ==
    /\ sup_pc = "work"
    /\ AllDone
    /\ Len(pieces) = 1
    /\ LET feed == [order |-> order, map |-> pieces[1].acc]
           u == upsert_slot_stats(stats, feed)
           m == maybe_submit(u.self, now)
       IN  /\ stats' = m.self
           /\ slot_metrics' = slot_metrics \o u.submitted
           /\ stage_metrics' = stage_metrics \o m.submitted
           /\ fed' = FedAfter(feed)
           /\ last_upsert' = UpsertedAfter(feed)
    /\ sup_pc' = retransmitter_loop("Ok")
    /\ shreds' = << >>
    /\ pieces' = << >>
    /\ outcome' = << >>
    /\ batch0' = << >>
    /\ UNCHANGED <<dedup_vars, tracker_vars, now, n_upserts, producers, queue, n_sent,
                   working_bank, cluster_nodes, max_slots>>
    /\ UNCHANGED <<pool_vars, add_assign_call>>

Supervisor ==
    \/ \E snapshot \in Snapshots :
       \E reset_deduper \in BOOLEAN, reset_id_filter \in BOOLEAN :
       \E split \in Splits(1, Len(Flatten(queue))) :
           Recv(root_slot, snapshot.leaders, snapshot.nodes,
                reset_deduper, reset_id_filter, split)
    \/ Timeout
    \/ Disconnected
    \/ \E i \in DOMAIN pieces, j \in DOMAIN pieces : Reduce(i, j)
    \/ \E order \in Orders(IF pieces = << >> THEN {} ELSE DOMAIN pieces[1].acc) : Finish(order)

Worker(p) ==
    \/ WorkerDedup(p)
    \/ \E num_failed \in 0..MaxAddrs : WorkerRest(p, num_failed)

Next ==
    \/ \E batch \in Batches : Send(batch)
    \/ Drop
    \/ Supervisor
    \/ \E p \in DOMAIN pieces : Worker(p)

Spec == Init /\ [][Next]_vars

\* the retransmitter thread keeps running, and so do the workers of the
\* pool while a batch is installed
FairSpec ==
    /\ Spec
    /\ WF_vars(Supervisor)
    /\ WF_vars(\E p \in DOMAIN pieces : Worker(p))

(***************************************************************************)
(* Specification StartSpec: retransmitter from its call on, handed one     *)
(* socket or none; it builds the pool and spawns the thread, and the       *)
(* program goes on as in Spec.                                             *)
(***************************************************************************)
StartInit ==
    /\ StageIdle
    /\ DedupIdle
    /\ TrackerIdle
    /\ rpc_subscriptions \in BOOLEAN
    /\ StatsNew
    /\ sup_pc = "start"
    /\ sockets \in 0..1
    /\ thread_count = 2
    /\ num_threads = 0
    /\ NoAddAssign

StartNext ==
    \/ BuildPool
    \/ Next

StartSpec == StartInit /\ [][StartNext]_vars

(***************************************************************************)
(* Properties of the deduper, checked under DedupSpec.                     *)
(***************************************************************************)
DedupIds == {ShredId(s) : s \in DedupShreds}

\* the calls since the last reset that returned false (admit)
AdmittedCalls == {i \in DOMAIN calls : ~calls[i].out}

\* the calls on `id` that present a payload for the first time since the last reset
FirstCalls(id) ==
    {i \in DOMAIN calls :
        /\ ShredId(calls[i].shred) = id
        /\ \A j \in 1..(i - 1) : calls[j].shred # calls[i].shred}

\* C1: between two deduper resets, dedup returns false for at most
\* MAX_DUPLICATE_COUNT = 2 distinct payloads of any shred id, and at most once
\* for each distinct payload.
C1_AdmitBound ==
    /\ \A id \in DedupIds :
           Cardinality({calls[i].shred : i \in {j \in AdmittedCalls : ShredId(calls[j].shred) = id}})
               <= MAX_DUPLICATE_COUNT
    /\ \A i \in AdmittedCalls : \A j \in AdmittedCalls : calls[i].shred = calls[j].shred => i = j

\* two payloads of one id admitted, a third distinct payload dropped, an admitted one replayed and dropped
C1_Witness ==
    \E i \in AdmittedCalls : \E j \in AdmittedCalls : \E k \in DOMAIN calls : \E r \in DOMAIN calls :
        /\ i < j /\ j < k /\ r > i /\ r # j /\ r # k
        /\ ShredId(calls[i].shred) = ShredId(calls[j].shred)
        /\ ShredId(calls[k].shred) = ShredId(calls[i].shred)
        /\ calls[k].shred \notin {calls[i].shred, calls[j].shred}
        /\ calls[k].out
        /\ calls[r].shred = calls[i].shred
        /\ calls[r].out

\* C2 as stated: any two consecutive calls dedup(s); dedup(s) with no reset in
\* between return false and then true.
C2_ReplayFalseTrue ==
    \A i \in 1..(Len(calls) - 1) :
        calls[i].shred = calls[i + 1].shred => (~calls[i].out /\ calls[i + 1].out)

\* C2 amended: of two consecutive calls dedup(s); dedup(s) with no reset in
\* between the second returns true; the first returns false exactly when the
\* payload of s is not in the payload filter and the id of s has an unclaimed
\* slot among its MAX_DUPLICATE_COUNT slots of the id filter.
C2_ReplayDropped ==
    \A i \in 1..(Len(calls) - 1) :
        calls[i].shred = calls[i + 1].shred =>
            /\ calls[i + 1].out
            /\ ~calls[i].out <=> (~calls[i].seen /\ calls[i].taken < MAX_DUPLICATE_COUNT)

\* a pair (false, true) on a new shred, and a pair (true, true) on a new
\* payload whose id has used up its slots
C2_Witness ==
    \E i \in 1..(Len(calls) - 1) : \E j \in 1..(Len(calls) - 1) :
        /\ calls[i].shred = calls[i + 1].shred
        /\ ~calls[i].out /\ calls[i + 1].out
        /\ calls[j].shred = calls[j + 1].shred
        /\ ~calls[j].seen /\ calls[j].taken = MAX_DUPLICATE_COUNT
        /\ calls[j].out /\ calls[j + 1].out

\* C3: for an id of which the deduper holds no trace, the distinct payloads
\* presented one after another are admitted while they are the first or the
\* second and dropped from the third on; the id includes the kind, so the data
\* and the coding shred of one (slot, index) are counted apart.
C3_FirstTwoAdmitted ==
    \A id \in fresh_ids : \A i \in FirstCalls(id) :
        calls[i].out <=> (Cardinality({j \in FirstCalls(id) : j <= i}) > MAX_DUPLICATE_COUNT)

\* the data id of (1, 5) has two payloads admitted and a third dropped, and
\* after that the coding id of (1, 5) still has two payloads admitted
C3_Witness ==
    LET data == <<1, 5, "data">>
        code == <<1, 5, "code">>
    IN  /\ {data, code} \subseteq fresh_ids
        /\ \E i \in FirstCalls(data) : \E c \in FirstCalls(code) : \E d \in FirstCalls(code) :
               /\ calls[i].out
               /\ Cardinality({j \in FirstCalls(data) : j < i /\ ~calls[j].out}) = 2
               /\ i < c /\ c < d
               /\ ~calls[c].out /\ ~calls[d].out

(***************************************************************************)
(* Properties of the first-shred tracker, checked under TrackerSpec.       *)
(***************************************************************************)
TrackerQuiet == \A w \in 1..TrackerWorkers : tr_pc[w] = 0

\* C8: with an RPC sink installed, check_if_first_shred_received returns true
\* at most once per slot between two prunes, a notification is sent at most
\* once per slot, and once no notification is due, exactly the slots that
\* were above the root when one of their admitted shreds was processed have
\* been notified, once each.
C8_FirstShredOnce ==
    rpc_subscriptions =>
        /\ \A s \in 1..MaxSlot : novel_count[s] <= 1 /\ notify_count[s] <= 1
        /\ TrackerQuiet =>
               \A s \in 1..MaxSlot : notify_count[s] = (IF s \in above_root THEN 1 ELSE 0)

\* slots 5 and 7 were notified once each, the root has passed slot 5 and a
\* prune has removed it from the tracker
C8_Witness ==
    /\ rpc_subscriptions
    /\ TrackerQuiet
    /\ {5, 7} \subseteq above_root
    /\ notify_count[5] = 1 /\ notify_count[7] = 1
    /\ 5 \notin first_shreds_received
    /\ 7 \in first_shreds_received
    /\ root_slot >= 5

(***************************************************************************)
(* Properties of the slot-stats cache, checked under RingSpec.  Every      *)
(* state of RingSpec is a point where upsert_slot_stats has returned.      *)
(***************************************************************************)
\* the sum, over the slot-stats datapoints submitted for `slot` from the i-th
\* on, of num_nodes (nodes = TRUE) or num_shreds
RECURSIVE SubmittedSum(_, _, _)
SubmittedSum(slot, nodes, i) ==
    IF i > Len(slot_metrics) THEN 0
    ELSE (IF slot_metrics[i].slot # slot THEN 0
          ELSE IF nodes THEN slot_metrics[i].num_nodes
          ELSE slot_metrics[i].num_shreds)
         + SubmittedSum(slot, nodes, i + 1)

\* the entry of `slot` in the cache, the default when it has none
CachedStats(slot) ==
    IF LruCache_contains(stats.slot_stats, slot)
    THEN stats.slot_stats.map[slot]
    ELSE RetransmitSlotStats_default

\* C6: whenever upsert_slot_stats has returned, the slot-stats cache holds at
\* most SLOT_STATS_CACHE_CAPACITY = 750 entries.
C6_RingBound == LruCache_len(stats.slot_stats) <= SLOT_STATS_CACHE_CAPACITY

\* the cache is full after at least two evictions and an aggregate reset
C6_Witness ==
    /\ LruCache_len(stats.slot_stats) = SLOT_STATS_CACHE_CAPACITY
    /\ Len(slot_metrics) >= 2
    /\ stage_metrics # << >>

\* C7: per-slot datapoints are submitted for evicted entries and for nothing
\* else: for every slot, the shreds and nodes upserted so far are those of its
\* cache entry plus those of the datapoints submitted for it, and every
\* datapoint carries the counters of a whole entry.
C7_EvictedSubmittedOnce ==
    /\ \A s \in DOMAIN fed :
           /\ fed[s].shreds
                  = Sum3(CachedStats(s).num_shreds_received) + SubmittedSum(s, FALSE, 1)
           /\ fed[s].nodes
                  = Sum3(CachedStats(s).num_shreds_sent) + SubmittedSum(s, TRUE, 1)
    /\ \A i \in DOMAIN slot_metrics :
           /\ slot_metrics[i].num_shreds > 0
           /\ slot_metrics[i].num_shreds = Sum3(slot_metrics[i].num_shreds_received)
           /\ slot_metrics[i].num_nodes = Sum3(slot_metrics[i].num_shreds_sent)
           /\ slot_metrics[i].slot \in DOMAIN fed

\* two entries were evicted and are out of the cache, the aggregate stats
\* were reset and the thread has left its loop
C7_Witness ==
    /\ Len(slot_metrics) >= 2
    /\ \A i \in DOMAIN slot_metrics :
           ~LruCache_contains(stats.slot_stats, slot_metrics[i].slot)
    /\ stage_metrics # << >>
    /\ sup_pc = "exited"

(***************************************************************************)
(* Properties of one batch, checked under Spec in the states where every   *)
(* worker has finished its piece and the reduced map is not yet upserted.  *)
(***************************************************************************)
BatchDone == sup_pc = "work" /\ AllDone

\* the positions of the batch that hold the same shred as position i
Copies(i) == {j \in DOMAIN shreds : shreds[j] = shreds[i]}

\* the shred had left no trace in the deduper when the workers were started
NotSeenBefore(shred) ==
    /\ ShredPayload(shred) \notin batch0.shred_deduper.deduper
    /\ \A k \in 0..(MAX_DUPLICATE_COUNT - 1) :
           <<ShredId(shred), k>> \notin batch0.shred_deduper.shred_id_filter

\* the positions of the batch with this outcome
Positions(res) == {i \in DOMAIN outcome : outcome[i].res = res}

\* C4: when a batch holds exactly two copies of a shred that was not seen
\* before and whose leader is known, then however the batch is split and the
\* workers interleave, one copy is sent and the other skipped; num_shreds
\* grows by the length of the batch (2 for the two copies alone) and
\* num_shreds_skipped by the number of shreds skipped (1 for the two alone).
C4_OneOfTwoSent ==
    BatchDone =>
        \A i \in DOMAIN shreds, j \in DOMAIN shreds :
            (/\ i < j
             /\ Copies(i) = {i, j}
             /\ NotSeenBefore(shreds[i])
             /\ slot_leader_at(shreds[i].slot, working_bank))
            => /\ {outcome[i].res, outcome[j].res} = {"sent", "skipped"}
               /\ stats.num_shreds = batch0.stats.num_shreds + Len(shreds)
               /\ stats.num_shreds_skipped
                      = batch0.stats.num_shreds_skipped + Cardinality(Positions("skipped"))
               /\ Len(shreds) = 2 =>
                      /\ stats.num_shreds = batch0.stats.num_shreds + 2
                      /\ stats.num_shreds_skipped = batch0.stats.num_shreds_skipped + 1

\* the two copies went to different workers and the later one was sent
C4_Witness ==
    /\ BatchDone
    /\ Len(pieces) = 2
    /\ \E i \in DOMAIN shreds, j \in DOMAIN shreds :
           /\ i <= pieces[1].hi
           /\ pieces[1].hi < j
           /\ Copies(i) = {i, j}
           /\ NotSeenBefore(shreds[i])
           /\ slot_leader_at(shreds[i].slot, working_bank)
           /\ outcome[i].res = "skipped"
           /\ outcome[j].res = "sent"

\* the sum over the slots in `keys` of num_shreds_received[d] in the map acc
RECURSIVE ReceivedAt(_, _, _)
ReceivedAt(acc, keys, d) ==
    IF keys = {} THEN 0
    ELSE LET k == CHOOSE k \in keys : TRUE
         IN  acc[k].num_shreds_received[d + 1] + ReceivedAt(acc, keys \ {k}, d)

\* the same sum over the maps of the pieces from the p-th on
RECURSIVE ReceivedInPieces(_, _)
ReceivedInPieces(p, d) ==
    IF p > Len(pieces) THEN 0
    ELSE ReceivedAt(pieces[p].acc, DOMAIN pieces[p].acc, d) + ReceivedInPieces(p + 1, d)

\* C5: once the workers have finished, and after each merge of the reduce,
\* the maps count at each root distance d the shreds of the batch that
\* were sent (neither dropped by the deduper nor skipped for an unknown
\* leader) at distance d.
C5_SlotStatsConservation ==
    BatchDone =>
        \A d \in 0..2 :
            ReceivedInPieces(1, d)
                = Cardinality({i \in Positions("sent") : outcome[i].root_distance = d})

\* a batch split in two is reduced to one map with two slots; slot 5 holds a
\* shred of either piece, at different distances
C5_Witness ==
    /\ BatchDone
    /\ Len(pieces) = 1
    /\ pieces[1].merges = 1
    /\ DOMAIN pieces[1].acc = {5, 7}
    /\ Sum3(pieces[1].acc[5].num_shreds_received) = 2
    /\ outcome[1].res = "skipped"
    /\ outcome[3].res = "sent"
    /\ \E d \in 0..2 : pieces[1].acc[5].num_shreds_received[d + 1] = 0

\* the positions whose shred was admitted by the deduper
Admitted == Positions("sent") \cup Positions("unknown")

\* C9: an admitted shred whose slot has no known leader is not sent, adds
\* one to unknown_shred_slot_leader and leaves no trace in the fold maps or
\* in the slot-stats cache, and the other shreds of the batch are processed.
C9_UnknownLeaderSkipped ==
    BatchDone =>
        LET unknown == {i \in Admitted : ~slot_leader_at(shreds[i].slot, working_bank)}
        IN  /\ \A i \in unknown : outcome[i].res = "unknown"
            /\ stats.unknown_shred_slot_leader
                   = batch0.stats.unknown_shred_slot_leader + Cardinality(unknown)
            /\ \A i \in unknown : \A p \in DOMAIN pieces :
                   shreds[i].slot \notin DOMAIN pieces[p].acc
            /\ stats.slot_stats = batch0.stats.slot_stats
            /\ Positions("pending") = {}

\* the leader of one admitted shred is unknown, and a later shred of the
\* same piece was sent
C9_Witness ==
    /\ BatchDone
    /\ Len(pieces) = 1
    /\ pieces[1].merges = 0
    /\ stats.unknown_shred_slot_leader = batch0.stats.unknown_shred_slot_leader + 1
    /\ \E i \in Positions("unknown") : \E j \in Positions("sent") : i < j

\* the sum of a field of the outcomes over the positions in `among`
RECURSIVE OutcomeSum(_, _)
OutcomeSum(among, field) ==
    IF among = {} THEN 0
    ELSE LET i == CHOOSE i \in among : TRUE
         IN  outcome[i][field] + OutcomeSum(among \ {i}, field)

\* the maps that hold slot stats: the fold maps of the pieces and the cache
SlotStatsMaps == {pieces[p].acc : p \in DOMAIN pieces} \cup {stats.slot_stats.map}

Counters(self) ==
    <<self.num_nodes, self.num_addrs_failed, self.num_shreds, self.num_shreds_skipped,
      self.total_batches, self.unknown_shred_slot_leader>>

\* C12 as claimed: whenever the thread is back at recv_timeout, less than
\* SUBMIT_CADENCE has elapsed since the last "retransmit-stage" datapoint, or
\* since the start.
C12_EmitWheneverDue == sup_pc = "recv" => now - stats.since < SUBMIT_CADENCE

\* C12 amended: the "retransmit-stage" datapoint is submitted when retransmit
\* returns Ok(()) at least SUBMIT_CADENCE after the last one or after the
\* start, with the counters of the stats, which are then reset; it is
\* submitted at no other step, also not when recv_timeout times out.
C12_EmitAtBatchEnd ==
    [][IF sup_pc = "work" /\ sup_pc' = "recv"
       THEN IF now - stats.since >= SUBMIT_CADENCE
            THEN /\ Len(stage_metrics') = Len(stage_metrics) + 1
                 /\ SubSeq(stage_metrics', 1, Len(stage_metrics)) = stage_metrics
                 /\ LET point == stage_metrics'[Len(stage_metrics')]
                    IN  <<point.num_nodes, point.num_addrs_failed, point.num_shreds,
                          point.num_shreds_skipped, point.total_batches,
                          point.unknown_shred_slot_leader>> = Counters(stats)
                 /\ stats'.since = now
                 /\ Counters(stats') = <<0, 0, 0, 0, 0, 0>>
            ELSE /\ stage_metrics' = stage_metrics
                 /\ stats'.since = stats.since
                 /\ Counters(stats') = Counters(stats)
       ELSE /\ stage_metrics' = stage_metrics
            /\ stats'.since = stats.since]_vars

\* one datapoint was submitted, by a batch that ended two seconds after the
\* start; the counters are reset and the thread is back at recv_timeout
C12_Witness ==
    /\ Len(stage_metrics) = 1
    /\ stage_metrics[1].num_shreds > 0
    /\ stats.since = 1 + SUBMIT_CADENCE
    /\ Counters(stats) = <<0, 0, 0, 0, 0, 0>>
    /\ sup_pc = "recv"

\* C13: a call of maybe_submit (a step of the thread that is no upsert, no
\* wait and no exit) that finds SUBMIT_CADENCE elapsed sets the aggregate
\* counters to zero and the window start to now and keeps the slot-stats
\* cache as it is: the same slots with the same stats in the same recency
\* order; a call before that changes nothing.
C13_ResetKeepsSlotStats ==
    [][(now' = now /\ n_upserts' = n_upserts /\ sup_pc' = sup_pc)
          => IF now - stats.since >= SUBMIT_CADENCE
             THEN /\ Counters(stats') = <<0, 0, 0, 0, 0, 0>>
                  /\ stats'.since = now
                  /\ stats'.slot_stats.order = stats.slot_stats.order
                  /\ stats'.slot_stats.map = stats.slot_stats.map
                  /\ slot_metrics' = slot_metrics
             ELSE /\ stats' = stats
                  /\ stage_metrics' = stage_metrics
                  /\ slot_metrics' = slot_metrics]_vars

\* the stats were reset over a full cache that had evicted an entry
C13_Witness ==
    /\ Len(stage_metrics) = 1
    /\ stage_metrics[1].num_shreds > SLOT_STATS_CACHE_CAPACITY
    /\ Counters(stats) = <<0, 0, 0, 0, 0, 0>>
    /\ stats.since = 1 + SUBMIT_CADENCE
    /\ LruCache_len(stats.slot_stats) = SLOT_STATS_CACHE_CAPACITY
    /\ sup_pc = "recv"

(***************************************************************************)
(* Properties of the retransmitter loop, checked under FairSpec.           *)
(***************************************************************************)
\* what the retransmitter thread owns or shares with its workers
ProgramState ==
    <<stats, shred_deduper, first_shreds_received, max_slots, shreds, pieces,
      stage_metrics, slot_metrics, notify_count>>

\* C10: a timeout of the intake channel changes no state and does not end
\* the loop; the loop ends only when the channel is empty and has no sender
\* left, and from then on it eventually ends.
C10_TimeoutBenignDisconnectExits ==
    /\ [][(sup_pc = "recv" /\ queue = << >> /\ producers > 0)
              => (sup_pc' = "recv" /\ UNCHANGED ProgramState)]_vars
    /\ [][(sup_pc # "exited" /\ sup_pc' = "exited")
              => (sup_pc = "recv" /\ queue = << >> /\ producers = 0)]_vars
    /\ (producers = 0 /\ queue = << >>) ~> (sup_pc = "exited")

\* the thread has timed out, has later retransmitted a batch and has left
\* the loop
C10_Witness ==
    /\ sup_pc = "exited"
    /\ now > 1
    /\ stats.since > 1
    /\ fed # << >>

(***************************************************************************)
(* The merge law of add_assign, checked under AddAssignSpec.               *)
(***************************************************************************)
\* the smaller of the outsets that are not zero, zero when both are zero
MinNonZero(x, y) == IF x = 0 THEN y ELSE IF y = 0 THEN x ELSE Min(x, y)

C14_AddAssignLawRightNonZero ==
    add_assign_call.pc = "done" =>
        LET a == add_assign_call.self
            b == add_assign_call.other
            r == add_assign_call.result
        IN  /\ b.outset # 0 => r.outset = MinNonZero(a.outset, b.outset)
            /\ b.outset = 0 => r.outset = 0
            /\ r.asof = Max(a.asof, b.asof)
            /\ \A k \in 1..3 :
                   /\ r.num_shreds_received[k]
                          = a.num_shreds_received[k] + b.num_shreds_received[k]
                   /\ r.num_shreds_sent[k] = a.num_shreds_sent[k] + b.num_shreds_sent[k]

(***************************************************************************)
(* The first-shred tracker and the root, checked under TrackerSpec.        *)
(***************************************************************************)
\* C15: in every reachable state, the root advancing between batches, the
\* tracker holds only slots greater than the root slot of the current
\* snapshot.
C15_TrackerAboveRoot ==
    \A s \in first_shreds_received : s > root_slot

\* C15, amended: a slot enters the tracker only if it is above the root of
\* the snapshot of its batch; the tracker loses slots only at or below
\* that root, and loses all of them whenever an insert leaves more than
\* FIRST_SHREDS_PRUNE_THRESHOLD slots; until then slots at or below the
\* current root stay in it.
C15_TrackerAboveRootAtInsert ==
    /\ [](first_shreds_received \subseteq above_root)
    /\ [][/\ \A s \in first_shreds_received' \ first_shreds_received : s > root_slot
          /\ \A s \in first_shreds_received \ first_shreds_received' : s <= root_slot
          /\ Cardinality(first_shreds_received \cup first_shreds_received')
                    > FIRST_SHREDS_PRUNE_THRESHOLD
                /\ first_shreds_received' # first_shreds_received
                => \A s \in first_shreds_received' : s > root_slot]_vars

\* the root has advanced to slot 5 and slot 5, inserted before, is still in
\* the tracker, next to slot 7
C15_Witness ==
    /\ root_slot = MaxRoot
    /\ MaxRoot \in first_shreds_received
    /\ 7 \in first_shreds_received

\* the tracker was pruned of the slots at or below the advanced root
C15_WitnessPruned ==
    /\ root_slot = MaxRoot
    /\ MaxRoot \in above_root
    /\ Cardinality(first_shreds_received) >= FIRST_SHREDS_PRUNE_THRESHOLD
    /\ \A s \in first_shreds_received : s > root_slot

(***************************************************************************)
(* The size of the thread pool, checked under PoolSpec.                    *)
(***************************************************************************)
\* C16: for every thread count and every number of sockets the pool is
\* built with min(max(thread count, sockets), 8) threads, so never with more
\* than 8.
C16_PoolSizeCapped ==
    num_threads # 0 =>
        /\ num_threads = Min(Max(thread_count, sockets), 8)
        /\ num_threads <= 8

\* what the pool's size does satisfy: the law up to 8 sockets, and one
\* thread per socket beyond
C16_PoolSizeUpToEightSockets ==
    num_threads # 0 =>
        IF sockets <= 8
        THEN num_threads = Min(Max(thread_count, sockets), 8)
        ELSE num_threads = sockets

(***************************************************************************)
(* An empty socket array, checked under StartSpec.                         *)
(***************************************************************************)
\* C17: an empty socket array is a fatal error at startup: the thread is
\* never running with no socket, before any batch is taken from the
\* channel; and it never makes the processing of a shred fail.
C17_EmptySocketsFatalAtStartup ==
    /\ sockets = 0 => sup_pc = "start"
    /\ sup_pc # "panicked"

\* the second half of C17 alone: no failure while a shred is processed
C17_NoFailureInProcessing == sup_pc # "panicked"

\* with no socket nothing fails before a worker is given a shred: the
\* panic comes from the work on a batch that was received
C17_PanicOnlyOnShred ==
    [][sup_pc' = "panicked" /\ sup_pc # "panicked"
          => sockets = 0 /\ sup_pc = "work" /\ shreds # << >>]_vars

(***************************************************************************)
(* maybe_reset and the workers, checked under Spec.                        *)
(***************************************************************************)
\* a worker is inside a call of dedup: between two of its filter accesses
InDedup == \E p \in DOMAIN pieces : pieces[p].pc = "dedup" /\ pieces[p].stage > 0

\* a worker still has shreds to hand to dedup
DedupAhead == \E p \in DOMAIN pieces : pieces[p].pc = "dedup"

\* C18: maybe_reset never runs while a worker executes dedup.  The step
\* that takes a batch and calls maybe_reset starts with no worker at work
\* and ends with no call of dedup begun; the thread takes the next batch
\* only when every worker has finished with the batch before; and apart
\* from maybe_reset the deduper changes only while a batch is at work.
C18_ResetBetweenBatches ==
    /\ [][sup_pc = "recv" /\ sup_pc' = "work"
              => /\ pieces = << >>
                 /\ ~InDedup'
                 /\ \A i \in DOMAIN outcome' : outcome'[i] = NoOutcome
                 /\ \E reset_deduper \in BOOLEAN, reset_id_filter \in BOOLEAN :
                        shred_deduper' = ShredDeduper_maybe_reset(shred_deduper,
                                             reset_deduper, reset_id_filter)]_vars
    /\ [][sup_pc = "work" /\ sup_pc' = "recv"
              => /\ ~DedupAhead
                 /\ \A p \in DOMAIN pieces : pieces[p].pc = "done"
                 /\ shred_deduper' = shred_deduper]_vars
    /\ [][shred_deduper' # shred_deduper /\ ~(sup_pc = "recv" /\ sup_pc' = "work")
              => sup_pc = "work" /\ sup_pc' = "work" /\ DedupAhead]_vars
    /\ [](sup_pc # "work" => pieces = << >>)

\* the second batch began with both filters reset, after the calls of
\* dedup of the first batch, and a worker is now inside a call of dedup
C18_Witness ==
    /\ sup_pc = "work"
    /\ now = 1
    /\ stats.total_batches = 2
    /\ batch0.shred_deduper = ShredDeduper_new
    /\ InDedup

(***************************************************************************)
(* Failed sends, checked under Spec.                                       *)
(***************************************************************************)
\* the sum over the slots in `keys` of num_shreds_sent[d] in the map acc
RECURSIVE SentAt(_, _, _)
SentAt(acc, keys, d) ==
    IF keys = {} THEN 0
    ELSE LET k == CHOOSE k \in keys : TRUE
         IN  acc[k].num_shreds_sent[d + 1] + SentAt(acc, keys \ {k}, d)

\* the same sum over the maps of the pieces from the p-th on
RECURSIVE SentInPieces(_, _)
SentInPieces(p, d) ==
    IF p > Len(pieces) THEN 0
    ELSE SentAt(pieces[p].acc, DOMAIN pieces[p].acc, d) + SentInPieces(p + 1, d)

\* C19: for an admitted shred with a known leader, whatever part of the
\* send fails, the count it yields plus what it adds to num_addrs_failed is
\* the number of its valid addresses; the shred is recorded with the count
\* it yields added to num_shreds_sent at its root distance; and every other
\* shred of the batch is processed.
C19_FailedSendsAccounted ==
    /\ \A i \in Positions("sent") :
           /\ outcome[i].num_failed \in 0..outcome[i].num_addrs
           /\ outcome[i].num_nodes + outcome[i].num_failed = outcome[i].num_addrs
    /\ BatchDone =>
           /\ \A i \in DOMAIN shreds : outcome[i].res # "pending"
           /\ stats.num_addrs_failed
                  = batch0.stats.num_addrs_failed + OutcomeSum(Positions("sent"), "num_failed")
           /\ stats.num_nodes
                  = batch0.stats.num_nodes + OutcomeSum(Positions("sent"), "num_nodes")
           /\ \A d \in 0..2 :
                  /\ SentInPieces(1, d)
                         = OutcomeSum({i \in Positions("sent") : outcome[i].root_distance = d},
                                      "num_nodes")
                  /\ ReceivedInPieces(1, d)
                         = Cardinality({i \in Positions("sent") : outcome[i].root_distance = d})

\* a batch is done in which the send of a shred failed for one of its two
\* addresses, and a later shred of the same batch was sent
C19_Witness ==
    /\ BatchDone
    /\ \E i \in Positions("sent") :
           /\ outcome[i].num_addrs = 2
           /\ outcome[i].num_failed = 1
           /\ outcome[i].num_nodes = 1
           /\ \E j \in Positions("sent") : j > i
           /\ SentInPieces(1, outcome[i].root_distance) = 1

\* a batch is done in which the send of a shred failed for all its
\* addresses: the shred is recorded as received, with no node reached
C19_WitnessAllFailed ==
    /\ BatchDone
    /\ \E i \in Positions("sent") :
           /\ outcome[i].num_addrs = 2
           /\ outcome[i].num_failed = 2
           /\ ReceivedInPieces(1, outcome[i].root_distance) = 1
           /\ SentInPieces(1, outcome[i].root_distance) = 0
           /\ \E j \in Positions("sent") : j > i

(***************************************************************************)
(* The order of eviction, checked under RingSpec.                          *)
(***************************************************************************)
\* the slots upserted at some time that are not in the cache now
EvictedSlots == DOMAIN last_upsert.rank \ DOMAIN stats.slot_stats.map

\* C20: the entries evicted are those whose latest upsert, insert or
\* add-assign, is the oldest: every slot that was evicted and has not come
\* back was last upserted before every slot that is still in the cache,
\* and the cache keeps its slots in the order of their latest upserts.
C20_EvictedLeastRecentlyUpserted ==
    /\ \A e \in EvictedSlots : \A k \in DOMAIN stats.slot_stats.map :
           last_upsert.rank[e] < last_upsert.rank[k]
    /\ \A i \in 1..(LruCache_len(stats.slot_stats) - 1) :
           last_upsert.rank[stats.slot_stats.order[i]]
               < last_upsert.rank[stats.slot_stats.order[i + 1]]

\* slots 1 to 750 were inserted in this order, slot 1 was upserted again,
\* and the insert of slot 751 then evicted slot 2 and kept slot 1
C20_Witness ==
    /\ EvictedSlots = {2}
    /\ last_upsert.rank[1] = SLOT_STATS_CACHE_CAPACITY + 1
    /\ last_upsert.rank[2] = 2
    /\ last_upsert.rank[SLOT_STATS_CACHE_CAPACITY + 1] = SLOT_STATS_CACHE_CAPACITY + 2
    /\ LruCache_len(stats.slot_stats) = SLOT_STATS_CACHE_CAPACITY
    /\ Len(slot_metrics) = 1
    /\ slot_metrics[1].slot = 2

\* 751 slots inserted one each, from slot 751 down: the earliest inserted,
\* slot 751, was evicted, and no other
C20_WitnessEarliestInserted ==
    /\ n_upserts = 1
    /\ last_upsert.count = SLOT_STATS_CACHE_CAPACITY + 1
    /\ last_upsert.rank[SLOT_STATS_CACHE_CAPACITY + 1] = 1
    /\ EvictedSlots = {SLOT_STATS_CACHE_CAPACITY + 1}
    /\ Len(slot_metrics) = 1
    /\ slot_metrics[1].slot = SLOT_STATS_CACHE_CAPACITY + 1

(***************************************************************************)
(* The tracker and the sink, checked under TrackerSpec.                    *)
(***************************************************************************)
\* C21: the tracker observes the slot of every shred that passes dedup,
\* with or without a sink of rpc subscriptions: every slot seen above the
\* root of its batch and still above the root is in the tracker.
C21_TrackerObservesWithoutSink ==
    \A s \in above_root : s > root_slot => s \in first_shreds_received

\* what the code keeps of C21: the same, when a sink is configured; with
\* none the tracker stays empty
C21_TrackerObservesWithSink ==
    IF rpc_subscriptions
    THEN \A s \in above_root : s > root_slot => s \in first_shreds_received
    ELSE first_shreds_received = {}

(***************************************************************************)
(* The account of a batch, checked under Spec.                             *)
(***************************************************************************)
\* what the batch at work has added to a counter of the stats
BatchIncrease(counter) == stats[counter] - batch0.stats[counter]

\* the shreds the maps of the pieces count as received, at any distance
ReceivedInBatch == ReceivedInPieces(1, 0) + ReceivedInPieces(1, 1) + ReceivedInPieces(1, 2)

\* C22: every shred of a batch is accounted for exactly once.  While the
\* batch is at work the shreds the workers are done with are those counted
\* as skipped, as of unknown leader, or as received in the fold maps; once
\* the workers have finished, and after every merge, these three make up
\* the size of the batch, which is what the batch added to num_shreds.
C22_ShredsAccountedOnce ==
    sup_pc = "work" =>
        /\ BatchIncrease("num_shreds") = Len(shreds)
        /\ BatchIncrease("num_shreds_skipped") + BatchIncrease("unknown_shred_slot_leader")
               + ReceivedInBatch
             = Cardinality(DOMAIN outcome \ Positions("pending"))
        /\ BatchDone =>
               BatchIncrease("num_shreds")
                 = BatchIncrease("num_shreds_skipped")
                   + BatchIncrease("unknown_shred_slot_leader") + ReceivedInBatch

\* a batch of eight, split in two and reduced to one map, with shreds
\* skipped, shreds of unknown leader and shreds sent
C22_Witness ==
    /\ BatchDone
    /\ Len(shreds) = 8
    /\ Len(pieces) = 1
    /\ pieces[1].merges = 1
    /\ BatchIncrease("num_shreds_skipped") > 0
    /\ BatchIncrease("unknown_shred_slot_leader") > 0
    /\ ReceivedInBatch > 1

(***************************************************************************)
(* The deduper and the leader lookup, checked under Spec.                  *)
(***************************************************************************)
\* the positions of the batch whose payload the deduper held when the
\* workers were started
MarkedBefore == {i \in DOMAIN shreds : ShredPayload(shreds[i]) \in batch0.shred_deduper.deduper}

\* C23: the deduper is marked before the leader lookup.  A shred skipped
\* for an unknown leader has its payload in the deduper; the payload stays
\* there until maybe_reset clears the deduper when a batch is taken; a shred
\* whose payload is in the deduper when its batch starts is dropped and
\* never reaches the leader lookup or the send, whether its leader is known
\* or not; and of the copies of a shred in one batch at most one gets as far
\* as the leader lookup.
C23_UnknownLeaderConsumesDeduper ==
    /\ [](\A i \in Positions("unknown") :
             ShredPayload(shreds[i]) \in shred_deduper.deduper)
    /\ [][\/ shred_deduper.deduper \subseteq shred_deduper'.deduper
          \/ sup_pc = "recv" /\ sup_pc' = "work" /\ shred_deduper'.deduper = {}]_vars
    /\ [](sup_pc = "work" =>
             \A i \in MarkedBefore : outcome[i].res \in {"pending", "skipped"})
    /\ [](\A i \in Admitted : \A j \in Admitted : shreds[i] = shreds[j] => i = j)

\* the first batch skipped ShredB for its unknown leader; the second batch,
\* taken with no reset of the deduper and with the leader of slot 7 known,
\* held ShredB again and dropped it
C23_Witness ==
    /\ BatchDone
    /\ now = 1
    /\ stats.total_batches = 2
    /\ batch0.stats.unknown_shred_slot_leader = 1
    /\ ShredPayload(ShredB) \in batch0.shred_deduper.deduper
    /\ slot_leader_at(ShredB.slot, working_bank)
    /\ \E i \in DOMAIN shreds : shreds[i] = ShredB
    /\ \A i \in DOMAIN shreds : shreds[i] = ShredB => outcome[i].res = "skipped"
    /\ stats.unknown_shred_slot_leader = 1

====
